---------------------------- MODULE Spec2Model ----------------------------
(***************************************************************************)
(* Model of the secret-detection engine of secret_scanner:                 *)
(*   detectors/entropy.py  shannon_entropy                                 *)
(*   scanner.py            should_skip_path, is_binary_file, scan_content, *)
(*                         scan_file, scan_directory, scan_git_history,    *)
(*                         Scanner.scan                                    *)
(*                                                                         *)
(* Text is a sequence of one-character strings.  A regular expression is   *)
(* either a sequence of character sets (the regex [ab][ab] is              *)
(* Regex(<<{"a","b"},{"a","b"}>>)), or a string that re.compile rejects:   *)
(* BadRegex with re.error, HugeRegex with OverflowError.  An optional      *)
(* number (a rule's entropy threshold) is <<>> when absent and <<t>> when  *)
(* set.                                                                    *)
(***************************************************************************)
EXTENDS Integers, Sequences, FiniteSets, TLC

VARIABLES config, call, result, scanned, printed, remembered

vars == <<config, call, result, scanned, printed, remembered>>

NULL == "None"

NL == "\n"

(***************************************************************************)
(* Bounds of the model.                                                    *)
(***************************************************************************)
MaxRules == 2

MaxLines == 2

MaxFiles == 2

\* the most targets on one command line
MaxTargets == 2

\* the longest text handed to shannon_entropy on its own
MaxText == 4

\* the longest varying head of a text handed to is_base64 and is_hex
MaxHead == 2

MaxCommits == 2

(***************************************************************************)
(* Text helpers.                                                           *)
(***************************************************************************)
RECURSIVE Join(_, _)
\* sep.join(lines)
Join(lines, sep) ==
    IF lines = <<>> THEN <<>>
    ELSE IF Len(lines) = 1 THEN lines[1]
    ELSE lines[1] \o <<sep>> \o Join(Tail(lines), sep)

RECURSIVE Split(_, _)
\* text.split(sep): always at least one (possibly empty) piece
Split(text, sep) ==
    IF \A i \in 1..Len(text) : text[i] # sep THEN <<text>>
    ELSE LET k == CHOOSE i \in 1..Len(text) :
                      /\ text[i] = sep
                      /\ \A j \in 1..(i - 1) : text[j] # sep
         IN  <<SubSeq(text, 1, k - 1)>> \o Split(SubSeq(text, k + 1, Len(text)), sep)

\* str.lower() on the characters of the model
LowerChar(c) ==
    CASE c = "A" -> "a"
      [] c = "B" -> "b"
      [] c = "X" -> "x"
      [] OTHER -> c

Lower(text) == [i \in 1..Len(text) |-> LowerChar(text[i])]

\* needle in haystack
Contains(haystack, needle) ==
    \E i \in 0..(Len(haystack) - Len(needle)) :
        SubSeq(haystack, i + 1, i + Len(needle)) = needle

\* text.count(ch)
Count(text, ch) == Cardinality({i \in 1..Len(text) : text[i] = ch})

\* text.startswith(prefix)
StartsWith(text, prefix) ==
    /\ Len(text) >= Len(prefix)
    /\ SubSeq(text, 1, Len(prefix)) = prefix

RECURSIVE Pow(_, _)
Pow(b, e) == IF e = 0 THEN 1 ELSE b * Pow(b, e - 1)

RECURSIVE ProdPow(_, _)
\* the product of count(c)^count(c) over the characters c of the set chars
ProdPow(text, chars) ==
    IF chars = {} THEN 1
    ELSE LET c == CHOOSE x \in chars : TRUE
         IN  Pow(Count(text, c), Count(text, c)) * ProdPow(text, chars \ {c})

\* Counter(data.lower()): the two cases of a letter counted as one character
shannon_entropy_caseless(data) ==
    IF data = <<>> THEN [len |-> 0, pp |-> 1]
    ELSE [len |-> Len(data),
          pp  |-> ProdPow(Lower(data), {Lower(data)[i] : i \in 1..Len(data)})]

(***************************************************************************)
(* shannon_entropy.  With n = len(data) and c the count of each distinct   *)
(* character, sum(-(c/n) * log2(c/n)) = log2(n) - log2(prod c^c) / n.      *)
(* The value is kept exactly as the pair (n, prod c^c); the empty string   *)
(* is (0, 1), which is 0.0.  The float sum is exact wherever the exact     *)
(* value is rational (all c/n are powers of two), so comparing with a      *)
(* whole threshold agrees with the float comparison.                       *)
(***************************************************************************)
shannon_entropy(data) ==
    IF data = <<>> THEN [len |-> 0, pp |-> 1]
    ELSE [len |-> Len(data),
          pp  |-> ProdPow(data, {data[i] : i \in 1..Len(data)})]

\* ent <= t
EntropyLessEq(ent, t) ==
    Pow(ent.len, ent.len) <= Pow(2, ent.len * t) * ent.pp

\* ent < t for a whole number t of bits per character:
\* log2(n) - log2(pp)/n < t  <=>  n^n < 2^(n*t) * pp
EntropyLess(ent, t) ==
    Pow(ent.len, ent.len) < Pow(2, ent.len * t) * ent.pp

\* entropy.py line 50
base64_chars ==
    {"A", "B", "C", "D", "E", "F", "G", "H", "I", "J", "K", "L", "M",
     "N", "O", "P", "Q", "R", "S", "T", "U", "V", "W", "X", "Y", "Z",
     "a", "b", "c", "d", "e", "f", "g", "h", "i", "j", "k", "l", "m",
     "n", "o", "p", "q", "r", "s", "t", "u", "v", "w", "x", "y", "z",
     "0", "1", "2", "3", "4", "5", "6", "7", "8", "9", "+", "/", "="}

\* ratio > 0.95 instead of ratio >= 0.95
is_base64_strict(text) ==
    IF Len(text) < 16 THEN FALSE
    ELSE LET valid_chars == Cardinality({i \in 1..Len(text) : text[i] \in base64_chars})
         IN  valid_chars * 100 > 95 * Len(text) /\ Len(text) % 4 = 0

\* entropy.py lines 37-61.  ratio = valid_chars / len(text) is the double
\* nearest to the quotient and 0.95 the double nearest to 19/20, so
\* ratio >= 0.95 is valid_chars * 100 >= 95 * len(text) for every text
\* shorter than 2^52 characters.
is_base64(text) ==
    IF Len(text) < 16 THEN FALSE
    ELSE LET valid_chars == Cardinality({i \in 1..Len(text) : text[i] \in base64_chars})
         IN  valid_chars * 100 >= 95 * Len(text) /\ Len(text) % 4 = 0

\* the characters int() reads as digits of base 16 (the ASCII ones)
HexDigits ==
    {"0", "1", "2", "3", "4", "5", "6", "7", "8", "9",
     "a", "b", "c", "d", "e", "f", "A", "B", "C", "D", "E", "F"}

\* characters int() strips from both ends (the ones the model draws)
Whitespace == {" ", NL}

RECURSIVE LStrip(_)
LStrip(text) ==
    IF text # <<>> /\ Head(text) \in Whitespace THEN LStrip(Tail(text)) ELSE text

RECURSIVE RStrip(_)
RStrip(text) ==
    IF text # <<>> /\ text[Len(text)] \in Whitespace
    THEN RStrip(SubSeq(text, 1, Len(text) - 1)) ELSE text

\* entropy.py line 78: int(text, 16) returns instead of raising ValueError.
\* int() strips whitespace, takes one sign, takes a 0x or 0X prefix and one
\* underscore after it, and then wants digits of base 16 with single
\* underscores between them.
IntBase16(text) ==
    LET stripped == RStrip(LStrip(text))
        unsigned == IF stripped # <<>> /\ Head(stripped) \in {"+", "-"}
                    THEN Tail(stripped) ELSE stripped
        prefixed == /\ Len(unsigned) >= 2
                    /\ unsigned[1] = "0"
                    /\ unsigned[2] \in {"x", "X"}
        body     == IF prefixed THEN SubSeq(unsigned, 3, Len(unsigned)) ELSE unsigned
        digits   == IF prefixed /\ body # <<>> /\ Head(body) = "_"
                    THEN Tail(body) ELSE body
    IN  /\ digits # <<>>
        /\ digits[1] \in HexDigits
        /\ digits[Len(digits)] \in HexDigits
        /\ \A i \in 1..Len(digits) : digits[i] \in HexDigits \cup {"_"}
        /\ \A i \in 1..(Len(digits) - 1) : ~(digits[i] = "_" /\ digits[i + 1] = "_")

\* is_hex without its length test
is_hex_any_length(text) == IntBase16(text)

\* entropy.py lines 64-81
is_hex(text) == IF Len(text) < 16 THEN FALSE ELSE IntBase16(text)

(***************************************************************************)
(* Regular expressions.                                                    *)
(***************************************************************************)
Regex(classes) == [compile |-> "ok", classes |-> classes]

\* a string such as "[": re.compile raises re.error
BadRegex == [compile |-> "re.error", classes |-> <<>>]

\* a string such as "a{4294967296}": re.compile raises OverflowError
\* ("the repetition number is too large"), which is no re.error
HugeRegex == [compile |-> "OverflowError", classes |-> <<>>]

\* re.compile(regex, ...): "ok" or the exception raised
Compile(regex) == regex.compile

\* the compiled pattern matches text[pos+1 .. pos+len] (pos is 0-based)
MatchesAt(regex, text, pos, ignorecase) ==
    /\ pos + Len(regex.classes) <= Len(text)
    /\ \A j \in 1..Len(regex.classes) :
          IF ignorecase
          THEN LowerChar(text[pos + j]) \in {LowerChar(x) : x \in regex.classes[j]}
          ELSE text[pos + j] \in regex.classes[j]

\* re.search(regex, text) finds a match
Search(regex, text) ==
    \E pos \in 0..Len(text) : MatchesAt(regex, text, pos, FALSE)

RECURSIVE FindIter(_, _, _)
\* pattern.finditer(content): non-overlapping matches, left to right
FindIter(regex, text, pos) ==
    IF pos + Len(regex.classes) > Len(text) THEN <<>>
    ELSE IF MatchesAt(regex, text, pos, TRUE)
         THEN <<[start |-> pos,
                 group |-> SubSeq(text, pos + 1, pos + Len(regex.classes))]>>
              \o FindIter(regex, text, pos + Len(regex.classes))
         ELSE FindIter(regex, text, pos + 1)

(***************************************************************************)
(* should_skip_path: any(re.search(pattern, path) for pattern in           *)
(* exclusions), evaluated left to right: "True", "False", or the exception *)
(* re.search raises on a pattern that does not compile.  any() stops at    *)
(* the first match.                                                        *)
(***************************************************************************)
RECURSIVE should_skip_path(_, _)
should_skip_path(path, exclusions) ==
    IF exclusions = <<>> THEN "False"
    ELSE IF Compile(Head(exclusions)) # "ok" THEN Compile(Head(exclusions))
    ELSE IF Search(Head(exclusions), path) THEN "True"
    ELSE should_skip_path(path, Tail(exclusions))

(***************************************************************************)
(* The outcome of a call or of a part of one: the exception it raised      *)
(* ("none" when it returned), the list it returned, the content blocks it  *)
(* passed to scan_content on the way, and the warnings it printed.         *)
(***************************************************************************)
Returned(findings) ==
    [raised |-> "none", findings |-> findings, blocks |-> <<>>, printed |-> <<>>]

Raised(exc) ==
    [raised |-> exc, findings |-> <<>>, blocks |-> <<>>, printed |-> <<>>]

\* print(f"Warning: ...") before the rest of a function runs
Warn(warning, rest) == [rest EXCEPT !.printed = <<warning>> \o rest.printed]

\* all_findings.extend(findings) and on to the rest of a loop: an exception
\* of the first part leaves the loop, and the function with it
Extend(first, rest) ==
    IF first.raised # "none" THEN first
    ELSE IF rest.raised # "none"
         THEN [rest EXCEPT !.blocks = first.blocks \o rest.blocks,
                           !.printed = first.printed \o rest.printed]
    ELSE [raised   |-> "none",
          findings |-> first.findings \o rest.findings,
          blocks   |-> first.blocks \o rest.blocks,
          printed  |-> first.printed \o rest.printed]

\* what the caller sees of an outcome
Result(outcome) == [raised |-> outcome.raised, findings |-> outcome.findings]

(***************************************************************************)
(* scan_content, lines 126-164: the body of the loop over the rules.       *)
(***************************************************************************)
\* line 136: any(kw.lower() in content.lower() for kw in keywords)
has_keyword(keywords, content) ==
    \E i \in 1..Len(keywords) : Contains(Lower(content), Lower(keywords[i]))

\* the keyword test without lower(): "kw in content"
KeywordGateCaseSensitive(rule, content) ==
    rule.keywords = <<>>
    \/ \E i \in 1..Len(rule.keywords) : Contains(content, rule.keywords[i])

\* lines 134-138: the rule is applied to this content block
KeywordGate(rule, content) ==
    rule.keywords = <<>> \/ has_keyword(rule.keywords, content)

\* the entropy filter with "ent <= min_entropy"
EntropyGateLessEq(rule, ent) ==
    ~(rule.entropy # <<>> /\ EntropyLessEq(ent, rule.entropy[1]))

\* lines 145-149: the match survives the entropy filter
EntropyGate(rule, ent) ==
    ~(rule.entropy # <<>> /\ EntropyLess(ent, rule.entropy[1]))

\* the line number counted from 0
LineNumberZeroBased(content, start) == Count(SubSeq(content, 1, start), NL)

\* line 152: content[:match.start()].count('\n') + 1
LineNumber(content, start) == Count(SubSeq(content, 1, start), NL) + 1

\* lines 154-162
MakeFinding(rule, match, content, file_path, commit_hash) ==
    [rule_id     |-> rule.id,
     description |-> IF rule.description = NULL THEN rule.id ELSE rule.description,
     secret      |-> match.group,
     file_path   |-> file_path,
     line_number |-> LineNumber(content, match.start),
     commit_hash |-> commit_hash,
     entropy     |-> shannon_entropy(match.group)]

\* round(self.entropy, 2), for an entropy given in 1/10000 bit and no tie:
\* the nearest number of 1/100 bit
Round2(entropy) == (entropy + 50) \div 100

\* the preview cut when the secret has 20 characters or more
to_dict_inclusive(finding) ==
    [rule_id        |-> finding.rule_id,
     description    |-> finding.description,
     file_path      |-> finding.file_path,
     line_number    |-> finding.line_number,
     commit_hash    |-> finding.commit_hash,
     entropy        |-> IF finding.entropy # <<>> /\ finding.entropy[1] # 0
                        THEN <<Round2(finding.entropy[1])>> ELSE <<>>,
     secret_preview |-> IF Len(finding.secret) >= 20
                        THEN SubSeq(finding.secret, 1, 20) \o <<".", ".", ".">>
                        ELSE finding.secret]

\* lines 44-54: Finding.to_dict.  entropy is None for None and for 0.0
\* ("if self.entropy"); the preview is (secret[:20] + "...") if
\* len(secret) > 20 else secret.
to_dict(finding) ==
    [rule_id        |-> finding.rule_id,
     description    |-> finding.description,
     file_path      |-> finding.file_path,
     line_number    |-> finding.line_number,
     commit_hash    |-> finding.commit_hash,
     entropy        |-> IF finding.entropy # <<>> /\ finding.entropy[1] # 0
                        THEN <<Round2(finding.entropy[1])>> ELSE <<>>,
     secret_preview |-> IF Len(finding.secret) > 20
                        THEN SubSeq(finding.secret, 1, 20) \o <<".", ".", ".">>
                        ELSE finding.secret]

\* pattern.search instead of pattern.finditer: the first match only
MatchFindingsFirstOnly(rule, content, file_path, commit_hash) ==
    LET matches == FindIter(rule.regex, content, 0)
    IN  IF matches = <<>> \/ ~EntropyGate(rule, shannon_entropy(matches[1].group))
        THEN <<>>
        ELSE <<MakeFinding(rule, matches[1], content, file_path, commit_hash)>>

\* lines 140-164: one Finding per match that passes the entropy filter
MatchFindings(rule, content, file_path, commit_hash) ==
    LET matches == FindIter(rule.regex, content, 0)
        kept    == SelectSeq(matches,
                       LAMBDA m : EntropyGate(rule, shannon_entropy(m.group)))
    IN  [i \in 1..Len(kept) |->
            MakeFinding(rule, kept[i], content, file_path, commit_hash)]

\* lines 133-164: what a rule that compiles appends to findings
RuleFindings(rule, content, file_path, commit_hash) ==
    IF ~KeywordGate(rule, content) THEN <<>>
    ELSE MatchFindings(rule, content, file_path, commit_hash)

RECURSIVE ScanRules(_, _, _, _)
\* lines 124-166: the loop over the rules, in order.  re.error is caught and
\* the rule skipped (lines 129-131); any other exception leaves the function
ScanRules(rules, content, file_path, commit_hash) ==
    IF rules = <<>> THEN Returned(<<>>)
    ELSE LET rule == Head(rules)
             rest == ScanRules(Tail(rules), content, file_path, commit_hash)
         IN  IF Compile(rule.regex) = "re.error"
             THEN Warn([kind |-> "invalid_regex", about |-> rule.id], rest)
             ELSE IF Compile(rule.regex) # "ok" THEN Raised(Compile(rule.regex))
             ELSE Extend(Returned(RuleFindings(rule, content, file_path, commit_hash)),
                         rest)

RECURSIVE CompileCalls(_)
\* line 128: the rules re.compile is called for in one pass of the loop,
\* in order; the loop ends at a pattern that raises something but re.error
CompileCalls(rules) ==
    IF rules = <<>> THEN <<>>
    ELSE IF Compile(Head(rules).regex) \in {"ok", "re.error"}
    THEN <<Head(rules).id>> \o CompileCalls(Tail(rules))
    ELSE <<Head(rules).id>>

\* line 128: how often the pattern of a rule is compiled over a run of
\* scan_content calls.  re.compile keeps the patterns it has compiled
\* (re._cache) and returns them when asked again; a pattern that does not
\* compile is not kept and is parsed anew at every call.
Compilations(blocks, rule) ==
    LET calls == Cardinality({pos \in (1..Len(blocks)) \X (1..MaxRules + 1) :
                                 /\ pos[2] <= Len(blocks[pos[1]].compiled)
                                 /\ blocks[pos[1]].compiled[pos[2]] = rule.id})
    IN  IF Compile(rule.regex) # "ok" THEN calls
        ELSE IF calls > 0 THEN 1 ELSE 0

\* lines 121-122: "if exclusions and should_skip_path(file_path, exclusions)"
ContentExcluded(file_path, exclusions) ==
    IF exclusions = <<>> THEN "False" ELSE should_skip_path(file_path, exclusions)

\* scan_content with a memory across calls: a secret the remembered call
\* has reported is not reported again
scan_content_once(content, rules, file_path, commit_hash, exclusions) ==
    LET skip == ContentExcluded(file_path, exclusions)
        outcome == IF skip = "True" THEN Returned(<<>>)
                   ELSE IF skip # "False" THEN Raised(skip)
                   ELSE ScanRules(rules, content, file_path, commit_hash)
        seen == IF remembered.op = "none" THEN {}
                ELSE {remembered.result.findings[n].secret :
                         n \in 1..Len(remembered.result.findings)}
    IN  [outcome EXCEPT
            !.findings = SelectSeq(outcome.findings, LAMBDA f : f.secret \notin seen),
            !.blocks = << [content |-> content, file_path |-> file_path,
                           commit_hash |-> commit_hash,
                           compiled |-> IF skip = "False" THEN CompileCalls(rules)
                                        ELSE <<>>] >>]

scan_content(content, rules, file_path, commit_hash, exclusions) ==
    LET skip == ContentExcluded(file_path, exclusions)
        outcome == IF skip = "True" THEN Returned(<<>>)
                   ELSE IF skip # "False" THEN Raised(skip)
                   ELSE ScanRules(rules, content, file_path, commit_hash)
    IN  [outcome EXCEPT !.blocks = << [content |-> content, file_path |-> file_path,
                                      commit_hash |-> commit_hash,
                                      compiled |-> IF skip = "False"
                                                   THEN CompileCalls(rules)
                                                   ELSE <<>>] >>]

(***************************************************************************)
(* Files.  A file system entry is a record: path is str(file_path),        *)
(* is_file what Path.is_file() answers, suffix the extension, open_rb and  *)
(* open_r whether open(.., 'rb') and open(.., 'r') succeed, nul the offset *)
(* of the first null byte (<<>> when there is none) and content the text   *)
(* read with errors='ignore'.                                              *)
(***************************************************************************)
\* line 95: f.read(8192)
ChunkSize == 8192

\* lines 82-87 (the extensions the model draws suffixes from)
binary_extensions == {".png", ".zip", ".pyc"}

\* file_path.suffix.lower()
LowerSuffix(suffix) ==
    CASE suffix = ".PNG" -> ".png"
      [] suffix = ".Py"  -> ".py"
      [] OTHER -> suffix

\* the null byte looked for in the first 8193 bytes
is_binary_file_inclusive(file) ==
    IF LowerSuffix(file.suffix) \in binary_extensions THEN TRUE
    ELSE IF ~file.open_rb THEN TRUE
    ELSE file.nul # <<>> /\ file.nul[1] <= ChunkSize

\* lines 71-98
is_binary_file(file) ==
    IF LowerSuffix(file.suffix) \in binary_extensions THEN TRUE
    ELSE IF ~file.open_rb THEN TRUE
    ELSE file.nul # <<>> /\ file.nul[1] < ChunkSize

\* scan_file without the try around the read: the exception of open leaves
\* the function
scan_file_unguarded(file, rules, exclusions) ==
    IF ~file.is_file THEN Returned(<<>>)
    ELSE LET skip == should_skip_path(file.path, exclusions)
         IN  IF skip = "True" THEN Returned(<<>>)
             ELSE IF skip # "False" THEN Raised(skip)
             ELSE IF is_binary_file(file) THEN Returned(<<>>)
             ELSE IF ~file.open_r THEN Raised("PermissionError")
             ELSE scan_content(file.content, rules, file.path, NULL, exclusions)

\* lines 169-204
scan_file(file, rules, exclusions) ==
    IF ~file.is_file THEN Returned(<<>>)
    ELSE LET skip == should_skip_path(file.path, exclusions)
         IN  IF skip = "True" THEN Returned(<<>>)
             ELSE IF skip # "False" THEN Raised(skip)
             ELSE IF is_binary_file(file) THEN Returned(<<>>)
             ELSE IF ~file.open_r
                  THEN Warn([kind |-> "could_not_read", about |-> file.path],
                            Returned(<<>>))
             ELSE scan_content(file.content, rules, file.path, NULL, exclusions)

(***************************************************************************)
(* scan_directory, lines 207-225.  A directory is the sequence of entries  *)
(* directory.rglob('*') yields.  An exception of scan_file leaves the      *)
(* loop and the function.                                                  *)
(***************************************************************************)
RECURSIVE scan_directory_top_only(_, _, _)
\* directory.glob('*') instead of rglob: the entries of the directory
\* itself only
scan_directory_top_only(entries, rules, exclusions) ==
    IF entries = <<>> THEN Returned(<<>>)
    ELSE Extend(IF Head(entries).is_file /\ Count(Head(entries).path, "/") <= 1
                THEN scan_file(Head(entries), rules, exclusions)
                ELSE Returned(<<>>),
                scan_directory_top_only(Tail(entries), rules, exclusions))

RECURSIVE scan_directory(_, _, _)
scan_directory(entries, rules, exclusions) ==
    IF entries = <<>> THEN Returned(<<>>)
    ELSE Extend(IF Head(entries).is_file
                THEN scan_file(Head(entries), rules, exclusions)
                ELSE Returned(<<>>),
                scan_directory(Tail(entries), rules, exclusions))

(***************************************************************************)
(* Git.  A repository is a record: status says what git.Repo(repo_path)    *)
(* finds ("repo", "not_a_repo" for an existing path that is no repository, *)
(* "missing" for a path that does not exist), path is the one file the     *)
(* history tracks, commits the commits reachable from the branch, most     *)
(* recent first, each the lines of the file in that commit; the parent of  *)
(* a commit is the next one, the last is the root.  fault names what is    *)
(* the matter with one commit (fault.at = 0: nothing).  renamed names the  *)
(* commit that moved the file to path (renamed.at = 0: none), the path it  *)
(* had before, and whether git's rename detection pairs the two paths      *)
(* when the content changed as well.                                       *)
(***************************************************************************)
RECURSIVE LcsLen(_, _)
\* the length of a longest common subsequence of the lines of a and b
LcsLen(a, b) ==
    IF a = <<>> \/ b = <<>> THEN 0
    ELSE IF Head(a) = Head(b) THEN 1 + LcsLen(Tail(a), Tail(b))
    ELSE LET da == LcsLen(Tail(a), b)
             db == LcsLen(a, Tail(b))
         IN  IF da >= db THEN da ELSE db

RECURSIVE EditScript(_, _)
\* the line diff that turns a into b: " " for a common line, "-" for a line
\* of a only, "+" for a line of b only; removals before additions
EditScript(a, b) ==
    IF a = <<>> THEN [i \in 1..Len(b) |-> <<"+">> \o b[i]]
    ELSE IF b = <<>> THEN [i \in 1..Len(a) |-> <<"-">> \o a[i]]
    ELSE IF Head(a) = Head(b)
         THEN << <<" ">> \o Head(a) >> \o EditScript(Tail(a), Tail(b))
    ELSE IF LcsLen(Tail(a), b) >= LcsLen(a, Tail(b))
         THEN << <<"-">> \o Head(a) >> \o EditScript(Tail(a), b)
    ELSE << <<"+">> \o Head(b) >> \o EditScript(a, Tail(b))

\* the hunk header line "@@ -l,n +l,n @@"
HunkHeader == <<"@", "@">>

\* Diff.diff for a changed file: the patch that turns a into b, after the
\* "---" and "+++" header lines, every line ended by a newline
PatchText(a, b) == Join(<<HunkHeader>> \o EditScript(a, b), NL) \o <<NL>>

IdSeq == <<"c1", "c2", "c3", "c4">>

\* commit.hexsha of the i-th commit of the list (the root is "c1")
HexSha(repo, i) == IdSeq[Len(repo.commits) - i + 1]

\* the path of the tracked file in the tree of commit i
PathIn(repo, i) ==
    IF repo.renamed.at # 0 /\ i > repo.renamed.at THEN repo.renamed.from
    ELSE repo.path

\* lines 258-261: commit.diff(parent, create_patch=True).  GitPython runs
\* "git diff-tree <commit> <parent> -p", the patch that turns the commit's
\* tree into the parent's; for a root commit commit.diff(NULL_TREE) runs
\* "git diff-tree <commit> --root -p", the patch that creates the commit's
\* tree.  No Diff when the file is the same on both sides.
DiffSides(repo, i) ==
    IF i = Len(repo.commits)
    THEN [a |-> <<>>, b |-> repo.commits[i],
          a_path |-> PathIn(repo, i), b_path |-> PathIn(repo, i)]
    ELSE [a |-> repo.commits[i], b |-> repo.commits[i + 1],
          a_path |-> PathIn(repo, i), b_path |-> PathIn(repo, i + 1)]

\* the Diff objects of commit i, in path order.  Same path on both sides:
\* one Diff when the content differs.  Different paths: one Diff without
\* hunks when the content is the same (an exact rename), one Diff with the
\* patch when git pairs the paths, else a Diff that deletes a_path and a
\* Diff that creates b_path.
CommitDiffs(repo, i) ==
    LET sides   == DiffSides(repo, i)
        paired  == [diff |-> PatchText(sides.a, sides.b),
                    a_path |-> sides.a_path, b_path |-> sides.b_path]
        deleted == [diff |-> PatchText(sides.a, <<>>),
                    a_path |-> sides.a_path, b_path |-> sides.a_path]
        created == [diff |-> PatchText(<<>>, sides.b),
                    a_path |-> sides.b_path, b_path |-> sides.b_path]
    IN  IF sides.a_path = sides.b_path
        THEN IF sides.a = sides.b THEN <<>> ELSE <<paired>>
        ELSE IF sides.a = sides.b THEN <<[paired EXCEPT !.diff = <<>>]>>
        ELSE IF repo.renamed.detected THEN <<paired>>
        ELSE IF Len(sides.a_path) > Len(sides.b_path) THEN <<deleted, created>>
        ELSE <<created, deleted>>

\* lines 279-282: the added lines of a patch, "+" removed
AddedLines(diff_text) ==
    LET lines == Split(diff_text, NL)
        added == SelectSeq(lines, LAMBDA line :
                     StartsWith(line, <<"+">>) /\ ~StartsWith(line, <<"+", "+", "+">>))
    IN  [k \in 1..Len(added) |-> Tail(added[k])]

\* line 268: diff.b_path if diff.b_path else diff.a_path
FilePath(diff) == IF diff.b_path # <<>> THEN diff.b_path ELSE diff.a_path

\* lines 263-297: the loop body for one Diff of commit i
DiffFindings(repo, i, diff, rules, exclusions) ==
    IF repo.fault.at = i /\ repo.fault.kind = "no_patch" THEN Returned(<<>>)
    ELSE LET skip == should_skip_path(FilePath(diff), exclusions)
         IN  IF skip = "True" THEN Returned(<<>>)
             ELSE IF skip # "False" THEN Raised(skip)
             ELSE IF repo.fault.at = i /\ repo.fault.kind = "bad_shape"
                  THEN Warn([kind |-> "commit_error", about |-> HexSha(repo, i)],
                            Returned(<<>>))
             ELSE LET added_lines == AddedLines(diff.diff)
                      findings == scan_content(Join(added_lines, NL), rules,
                                               FilePath(diff), HexSha(repo, i),
                                               exclusions)
                  IN  IF added_lines = <<>> THEN Returned(<<>>)
                      ELSE IF findings.raised # "none"
                           THEN [Returned(<<>>) EXCEPT
                                    !.blocks = findings.blocks,
                                    !.printed = findings.printed \o
                                        <<[kind |-> "commit_error",
                                           about |-> HexSha(repo, i)]>>]
                      ELSE findings

RECURSIVE DiffsLoop(_, _, _, _, _)
\* lines 263-297: the loop over the Diffs of commit i
DiffsLoop(repo, i, diffs, rules, exclusions) ==
    IF diffs = <<>> THEN Returned(<<>>)
    ELSE Extend(DiffFindings(repo, i, Head(diffs), rules, exclusions),
                DiffsLoop(repo, i, Tail(diffs), rules, exclusions))

\* lines 256-297: the loop body for commit i
CommitFindings(repo, i, rules, exclusions) ==
    IF repo.fault.at = i /\ repo.fault.kind = "diff_fails"
    THEN Raised("GitCommandError")
    ELSE DiffsLoop(repo, i, CommitDiffs(repo, i), rules, exclusions)

RECURSIVE HistoryLoop(_, _, _, _, _)
\* lines 256-299: commits i..last of the list
HistoryLoop(repo, i, last, rules, exclusions) ==
    IF i > last THEN Returned(<<>>)
    ELSE Extend(CommitFindings(repo, i, rules, exclusions),
                HistoryLoop(repo, i + 1, last, rules, exclusions))

\* iter_commits without max_count: every commit reachable from the branch
CommitCountUnlimited(repo, max_commits) == Len(repo.commits)

\* line 254: len(list(repo.iter_commits(branch, max_count=max_commits)))
CommitCount(repo, max_commits) ==
    IF max_commits # <<>> /\ max_commits[1] < Len(repo.commits)
    THEN max_commits[1] ELSE Len(repo.commits)

\* lines 228-299.  git.Repo raises NoSuchPathError for a path that does not
\* exist and InvalidGitRepositoryError for one that is no repository; only
\* the latter is caught.  iter_commits raises GitCommandError when the
\* branch names no commit (a repository without commits).
scan_git_history(repo, rules, exclusions, max_commits) ==
    IF repo.status = "missing" THEN Raised("NoSuchPathError")
    ELSE IF repo.status = "not_a_repo" THEN Raised("ValueError")
    ELSE IF repo.commits = <<>> THEN Raised("GitCommandError")
    ELSE HistoryLoop(repo, 1, CommitCount(repo, max_commits), rules, exclusions)

(***************************************************************************)
(* Scanner.scan, lines 308-337.  A target is a record: kind says what is   *)
(* at the path ("missing": nothing, "file": a regular file, "directory",   *)
(* "device": a special file such as /dev/null or a fifo, "symlink_cycle":  *)
(* a symbolic link that leads back to itself); a file target carries the   *)
(* file, a directory target its entries and what git.Repo finds there.     *)
(***************************************************************************)
\* Path.exists() that answers True whatever is at the path
ExistsAlways(target) == TRUE

\* line 327: target.exists().  Path.exists() follows symbolic links and
\* answers False when the link cannot be resolved (ENOENT, ELOOP)
Exists(target) == target.kind \in {"file", "directory", "device"}

\* line 332: target.is_file()
IsFile(target) == target.kind = "file"

\* line 334: target.is_dir()
IsDir(target) == target.kind = "directory"

\* what git.Repo(target) finds: a path that is no directory is no repository
RepoAt(target) ==
    IF target.kind = "directory" THEN target.repo
    ELSE [status |-> IF Exists(target) THEN "not_a_repo" ELSE "missing",
          path |-> <<"s">>, commits |-> <<>>, fault |-> [at |-> 0, kind |-> "none"],
          renamed |-> [at |-> 0, from |-> <<>>, detected |-> TRUE]]

\* lines 325-337: the walker invoked ("none" when scan raises by itself) and
\* the outcome
Scanner_scan(target, git_history, max_commits, rules, exclusions) ==
    IF ~Exists(target)
    THEN [walker |-> "none", outcome |-> Raised("FileNotFoundError")]
    ELSE IF git_history
    THEN [walker  |-> "scan_git_history",
          outcome |-> scan_git_history(RepoAt(target), rules, exclusions, max_commits)]
    ELSE IF IsFile(target)
    THEN [walker |-> "scan_file", outcome |-> scan_file(target.file, rules, exclusions)]
    ELSE IF IsDir(target)
    THEN [walker  |-> "scan_directory",
          outcome |-> scan_directory(target.entries, rules, exclusions)]
    ELSE [walker |-> "none", outcome |-> Raised("ValueError")]

(***************************************************************************)
(* The scan command, cli.py lines 21-141.  The outcome of a run is the     *)
(* exit status, the stage the run ended in, all_findings at that moment    *)
(* and the targets whose scan raised, with what they raised.               *)
(***************************************************************************)
\* lines 114-120 with break instead of continue in the except clause
GatherStopAtError(target, scan, rest) ==
    IF scan.raised # "none"
    THEN [findings |-> <<>>,
          errors   |-> <<[target |-> target, error |-> scan.raised]>>,
          blocks   |-> scan.blocks]
    ELSE [findings |-> scan.findings \o rest.findings,
          errors   |-> rest.errors,
          blocks   |-> scan.blocks \o rest.blocks]

\* lines 108-120: all_findings.extend(findings) when scanner.scan returns;
\* an Exception is echoed and the loop continues with the rest
Gather(target, scan, rest) ==
    IF scan.raised # "none"
    THEN [findings |-> rest.findings,
          errors   |-> <<[target |-> target, error |-> scan.raised]>> \o rest.errors,
          blocks   |-> scan.blocks \o rest.blocks]
    ELSE [findings |-> scan.findings \o rest.findings,
          errors   |-> rest.errors,
          blocks   |-> scan.blocks \o rest.blocks]

RECURSIVE TargetsLoop(_, _, _, _, _)
\* lines 100-120: the loop over the targets
TargetsLoop(targets, git_history, max_commits, rules, exclusions) ==
    IF targets = <<>> THEN [findings |-> <<>>, errors |-> <<>>, blocks |-> <<>>]
    ELSE Gather(Head(targets),
                Scanner_scan(Head(targets), git_history, max_commits,
                             rules, exclusions).outcome,
                TargetsLoop(Tail(targets), git_history, max_commits, rules, exclusions))

\* lines 122-141: the report and the exit status.  sys.exit(1) raises
\* SystemExit, which "except Exception" does not catch.
Finish(loop, exit_code, reports) ==
    IF ~reports
    THEN [exit |-> 2, stage |-> "report", findings |-> loop.findings,
          errors |-> loop.errors, blocks |-> loop.blocks]
    ELSE [exit |-> IF exit_code /\ loop.findings # <<>> THEN 1 ELSE 0,
          stage |-> "done", findings |-> loop.findings,
          errors |-> loop.errors, blocks |-> loop.blocks]

\* lines 21-141.  click rejects an empty target list and a target that
\* does not exist (line 22, exit status 2) before the function runs;
\* loads says whether load_rules and validate_config return, reports
\* whether get_reporter and reporter.report do.
scan_command(targets, git_history, max_commits, exit_code, loads, reports, rules, exclusions) ==
    IF targets = <<>> \/ \E k \in 1..Len(targets) : ~Exists(targets[k])
    THEN [exit |-> 2, stage |-> "usage", findings |-> <<>>, errors |-> <<>>,
          blocks |-> <<>>]
    ELSE IF ~loads
    THEN [exit |-> 2, stage |-> "load_rules", findings |-> <<>>, errors |-> <<>>,
          blocks |-> <<>>]
    ELSE Finish(TargetsLoop(targets, git_history, max_commits, rules, exclusions),
                exit_code, reports)

(***************************************************************************)
(* Inputs.                                                                 *)
(***************************************************************************)
SeqsUpTo(S, n) == UNION {[1..k -> S] : k \in 0..n}

\* the regex [ab][ab]
PatAB == Regex(<<{"a", "b"}, {"a", "b"}>>)

\* the exclusion regex l/ (searched unanchored, like node_modules/)
ExLib == Regex(<<{"l"}, {"/"}>>)

RulePlain ==
    [id |-> "plain", description |-> NULL, regex |-> PatAB,
     keywords |-> <<>>, entropy |-> <<>>]

RuleEnt1 ==
    [id |-> "ent1", description |-> "d", regex |-> PatAB,
     keywords |-> <<>>, entropy |-> <<1>>]

RuleKw ==
    [id |-> "kw", description |-> NULL, regex |-> PatAB,
     keywords |-> << <<"l">>, <<"b">> >>, entropy |-> <<>>]

RuleKwEnt ==
    [id |-> "kwent", description |-> NULL, regex |-> PatAB,
     keywords |-> << <<"X">> >>, entropy |-> <<0>>]

RuleBad ==
    [id |-> "bad", description |-> NULL, regex |-> BadRegex,
     keywords |-> <<>>, entropy |-> <<>>]

RuleHuge ==
    [id |-> "huge", description |-> NULL, regex |-> HugeRegex,
     keywords |-> <<>>, entropy |-> <<>>]

RuleUniverse == {RulePlain, RuleEnt1, RuleKw, RuleKwEnt, RuleBad, RuleHuge}

RuleSets == SeqsUpTo(RuleUniverse, MaxRules)

ExclusionLists ==
    { <<>>, <<ExLib>>, <<BadRegex, ExLib>>, <<ExLib, BadRegex>> }

Lines == { <<"a", "a">>, <<"a", "B">>, <<"x">> }

Contents == {Join(ls, NL) : ls \in SeqsUpTo(Lines, MaxLines)}

Paths == { <<"s">>, <<"l", "/", "s">> }

CommitIds == {"c1", "c2", "c3", "c4"}

(***************************************************************************)
(* The state machine.  config is Scanner.config (Config.rules,             *)
(* Config.exclusions); call is the call made and its arguments, result     *)
(* what it returned or raised, scanned the content blocks it passed to     *)
(* scan_content, printed the warnings it wrote to standard output.         *)
(* remembered is the first scan_content call a caller has kept the result  *)
(* of (NoCall: none yet), for comparison with later calls.                 *)
(***************************************************************************)
\* what can be the matter with a file system entry
FileConditions ==
    { [is_file |-> TRUE,  suffix |-> ".py",  open_rb |-> TRUE,  nul |-> <<>>,
       open_r |-> TRUE],
      [is_file |-> FALSE, suffix |-> ".py",  open_rb |-> FALSE, nul |-> <<>>,
       open_r |-> FALSE],
      [is_file |-> TRUE,  suffix |-> ".PNG", open_rb |-> TRUE,  nul |-> <<>>,
       open_r |-> TRUE],
      [is_file |-> TRUE,  suffix |-> ".Py",  open_rb |-> TRUE,  nul |-> <<0>>,
       open_r |-> TRUE],
      [is_file |-> TRUE,  suffix |-> ".py",  open_rb |-> TRUE,  nul |-> <<8191>>,
       open_r |-> TRUE],
      [is_file |-> TRUE,  suffix |-> ".py",  open_rb |-> TRUE,  nul |-> <<8192>>,
       open_r |-> TRUE],
      [is_file |-> TRUE,  suffix |-> ".py",  open_rb |-> FALSE, nul |-> <<>>,
       open_r |-> FALSE],
      [is_file |-> TRUE,  suffix |-> ".py",  open_rb |-> TRUE,  nul |-> <<>>,
       open_r |-> FALSE] }

FileAt(path, cond, content) ==
    [path |-> path, is_file |-> cond.is_file, suffix |-> cond.suffix,
     open_rb |-> cond.open_rb, nul |-> cond.nul, open_r |-> cond.open_r,
     content |-> content]

Files ==
    {FileAt(p, c, t) : p \in Paths, c \in FileConditions, t \in Contents}

\* a directory: the root it is scanned as and, in rglob order, its entries
\* (name below the root, condition, content)
Roots == { <<"s">>, <<"l", "/", "d">> }

EntryNames == { <<"s">>, <<"l", "/", "s">> }

EntryConditions ==
    {c \in FileConditions :
        c.suffix \in {".py", ".PNG"} /\ c.nul = <<>> /\ (c.open_r => c.open_rb)}

DirEntries ==
    [name : EntryNames, cond : EntryConditions, content : { <<"a", "B">>, <<"x">> }]

Directories == [root : Roots, entries : SeqsUpTo(DirEntries, MaxFiles)]

\* the entries as the files rglob yields: root/name
FilesOf(directory) ==
    [k \in 1..Len(directory.entries) |->
        FileAt(directory.root \o <<"/">> \o directory.entries[k].name,
               directory.entries[k].cond, directory.entries[k].content)]

\* the lines a version of the tracked file is made of: a line without a
\* secret, a line with one, and lines with one whose text begins with + or ++
LineX == <<"x">>

LineS == <<"a", "B">>

LineQ == <<"+", "a", "B">>

LineP == <<"+", "+", "a", "B">>

Versions ==
    { <<>>, <<LineX>>, <<LineS>>, <<LineX, LineS>>, <<LineS, LineX>>,
      <<LineP>>, <<LineQ, LineX>> }

NoFault == [at |-> 0, kind |-> "none"]

Faults(n) == {NoFault} \cup [at : 1..n, kind : {"diff_fails", "no_patch", "bad_shape"}]

Histories == UNION {[1..n -> Versions] : n \in 0..MaxCommits}

NoRename == [at |-> 0, from |-> <<>>, detected |-> TRUE]

\* a rename by one of the first n commits of the list
Renames(n) == {NoRename} \cup [at : 1..n, from : Paths, detected : BOOLEAN]

Repos ==
    { r \in [status : {"repo"}, path : Paths, commits : Histories,
             fault : Faults(MaxCommits), renamed : Renames(MaxCommits - 1)] :
          /\ r.fault.at <= Len(r.commits)
          /\ r.renamed.at < Len(r.commits) \/ r.renamed = NoRename
          /\ r.renamed.from # r.path }
    \cup [status : {"not_a_repo", "missing"}, path : { <<"s">> },
          commits : { <<>> }, fault : {NoFault}, renamed : {NoRename}]

\* the rule sets and exclusion lists the walkers are run with
WalkRuleSets == { <<RulePlain>>, <<RuleBad, RulePlain>>, <<RuleHuge, RulePlain>> }

\* the targets Scanner.scan is called on
ScanRepos ==
    {r \in Repos : r.status # "missing" /\ r.fault = NoFault /\ r.path = <<"s">>
                    /\ r.commits \in { <<>>, << <<LineS>> >> }}

ScanTargets ==
    [kind : {"missing", "device", "symlink_cycle"}]
    \cup {[kind |-> "file", file |-> f] : f \in {g \in Files : g.is_file}}
    \cup {[kind |-> "directory", entries |-> FilesOf(d), repo |-> r] :
              d \in {x \in Directories : Len(x.entries) <= 1}, r \in ScanRepos}

\* the targets named on a command line: nothing, a device, readable text
\* files with and without a secret, a directory without files in a
\* repository with commits
CliTargets ==
    [kind : {"missing", "device"}]
    \cup {[kind |-> "file",
           file |-> FileAt(p, [is_file |-> TRUE, suffix |-> ".py", open_rb |-> TRUE,
                               nul |-> <<>>, open_r |-> TRUE], t)] :
              p \in Paths, t \in {LineS, LineX}}
    \cup {[kind |-> "directory", entries |-> <<>>, repo |-> r] :
              r \in {x \in ScanRepos : /\ x.status = "repo"
                                       /\ x.commits # <<>>
                                       /\ x.renamed = NoRename}}

\* the texts shannon_entropy is called with on its own
EntropyTexts == SeqsUpTo({"a", "A", "b"}, MaxText)

\* the characters the long texts vary in
LongChars == {"a", "F", "0", "x", "_", "+", " ", "g"}

\* n times the character a
Fill(n) == [i \in 1..n |-> "a"]

\* the texts is_base64 and is_hex are called with: 12 to 41 characters, a
\* varying head and tail around a run of the character a
LongTexts ==
    {head \o Fill(n) \o tail :
        head \in SeqsUpTo(LongChars, MaxHead),
        n \in {12, 13, 14, 15, 16, 18, 19, 37, 38},
        tail \in SeqsUpTo(LongChars, 1)}

\* the secrets of the Findings to_dict is called on: up to 25 characters,
\* some of them ending in dots
Secrets ==
    {Fill(n) \o tail :
        n \in {0, 17, 18, 19, 20, 21},
        tail \in SeqsUpTo({"b", "."}, MaxHead + 1)}

\* the Findings to_dict is called on; entropy is <<>> for None and else
\* the number of 1/10000 bit (0.0, 1.0, 1.5849)
DictFindings ==
    [rule_id     : {"plain"},
     description : {"plain"},
     secret      : Secrets,
     file_path   : {<<"s">>},
     line_number : {1, 2},
     commit_hash : {NULL, "c1"},
     entropy     : {<<>>, <<0>>, <<10000>>, <<15849>>}]

NoCall == [op |-> "none"]

Idle == call = NoCall

InitContent ==
    /\ config \in [rules : RuleSets, exclusions : ExclusionLists]
    /\ call = NoCall
    /\ result = Result(Returned(<<>>))
    /\ scanned = <<>>
    /\ printed = <<>>
    /\ remembered = NoCall

\* a direct call of scan_content with the configured rules and exclusions
ScanContent ==
    /\ Idle
    /\ \E content \in Contents, file_path \in Paths, commit_hash \in {NULL, "c1"} :
        /\ call' = [op |-> "scan_content", content |-> content,
                    file_path |-> file_path, commit_hash |-> commit_hash]
        /\ LET outcome == scan_content(content, config.rules, file_path,
                                       commit_hash, config.exclusions)
           IN  /\ result' = Result(outcome)
               /\ scanned' = outcome.blocks
               /\ printed' = outcome.printed
    /\ UNCHANGED <<config, remembered>>

\* a direct call of scan_content by a caller that keeps the first call and
\* its result, and notes whether a different call was made after it
ScanContentKeeping ==
    /\ Idle
    /\ \E content \in Contents, file_path \in Paths, commit_hash \in {NULL, "c1"} :
        LET made    == [op |-> "scan_content", content |-> content,
                        file_path |-> file_path, commit_hash |-> commit_hash]
            outcome == scan_content(content, config.rules, file_path,
                                    commit_hash, config.exclusions)
        IN  /\ call' = made
            /\ result' = Result(outcome)
            /\ scanned' = outcome.blocks
            /\ printed' = outcome.printed
            /\ remembered' =
                   IF remembered = NoCall
                   THEN [op |-> "kept", call |-> made, result |-> Result(outcome),
                         between |-> FALSE]
                   ELSE IF remembered.call = made THEN remembered
                   ELSE [remembered EXCEPT !.between = TRUE]
    /\ UNCHANGED config

\* what a function that returns a value, not a Finding list, hands back
Value(v) == [raised |-> "none", findings |-> <<>>, value |-> v]

\* a call of is_binary_file
IsBinaryFile ==
    /\ Idle
    /\ \E file \in {f \in Files : f.is_file} :
        /\ call' = [op |-> "is_binary_file", file |-> file]
        /\ result' = Value(is_binary_file(file))
    /\ scanned' = <<>>
    /\ printed' = <<>>
    /\ UNCHANGED <<config, remembered>>

\* the detector functions are called without a Scanner
InitEntropy ==
    /\ config = [rules |-> <<>>, exclusions |-> <<>>]
    /\ call = NoCall
    /\ result = Result(Returned(<<>>))
    /\ scanned = <<>>
    /\ printed = <<>>
    /\ remembered = NoCall

\* a call of shannon_entropy
ShannonEntropy ==
    /\ Idle
    /\ \E data \in EntropyTexts :
        /\ call' = [op |-> "shannon_entropy", data |-> data]
        /\ result' = Value(shannon_entropy(data))
    /\ scanned' = <<>>
    /\ printed' = <<>>
    /\ UNCHANGED <<config, remembered>>

\* a call of is_base64
IsBase64 ==
    /\ Idle
    /\ \E text \in LongTexts :
        /\ call' = [op |-> "is_base64", text |-> text]
        /\ result' = Value(is_base64(text))
    /\ scanned' = <<>>
    /\ printed' = <<>>
    /\ UNCHANGED <<config, remembered>>

\* a call of is_hex
IsHex ==
    /\ Idle
    /\ \E text \in LongTexts :
        /\ call' = [op |-> "is_hex", text |-> text]
        /\ result' = Value(is_hex(text))
    /\ scanned' = <<>>
    /\ printed' = <<>>
    /\ UNCHANGED <<config, remembered>>

\* a run of the scan command
ScanCommand ==
    /\ Idle
    /\ \E n \in 0..MaxTargets, git_history \in BOOLEAN, exit_code \in BOOLEAN,
          loads \in BOOLEAN, reports \in BOOLEAN :
      \E targets \in [1..n -> CliTargets] :
        LET run == scan_command(targets, git_history, <<>>, exit_code, loads, reports,
                                config.rules, config.exclusions)
        IN  /\ call' = [op |-> "scan_command", targets |-> targets,
                        git_history |-> git_history, exit_code |-> exit_code,
                        loads |-> loads, reports |-> reports]
            /\ result' = Value([exit |-> run.exit, stage |-> run.stage,
                                findings |-> run.findings, errors |-> run.errors])
            /\ scanned' = run.blocks
            /\ printed' = <<>>
    /\ UNCHANGED <<config, remembered>>

\* a call of Finding.to_dict
ToDict ==
    /\ Idle
    /\ \E finding \in DictFindings :
        /\ call' = [op |-> "to_dict", finding |-> finding]
        /\ result' = Value(to_dict(finding))
    /\ scanned' = <<>>
    /\ printed' = <<>>
    /\ UNCHANGED <<config, remembered>>

\* a direct call of scan_file
ScanFile ==
    /\ Idle
    /\ \E file \in Files :
        /\ call' = [op |-> "scan_file", file |-> file]
        /\ LET outcome == scan_file(file, config.rules, config.exclusions)
           IN  /\ result' = Result(outcome)
               /\ scanned' = outcome.blocks
               /\ printed' = outcome.printed
    /\ UNCHANGED <<config, remembered>>

InitWalk ==
    /\ config \in [rules : WalkRuleSets, exclusions : ExclusionLists]
    /\ call = NoCall
    /\ result = Result(Returned(<<>>))
    /\ scanned = <<>>
    /\ printed = <<>>
    /\ remembered = NoCall

\* a call of scan_directory on a directory that exists
ScanDirectory ==
    /\ Idle
    /\ \E directory \in Directories :
        /\ call' = [op |-> "scan_directory", directory |-> directory]
        /\ LET outcome == scan_directory(FilesOf(directory), config.rules,
                                         config.exclusions)
           IN  /\ result' = Result(outcome)
               /\ scanned' = outcome.blocks
               /\ printed' = outcome.printed
    /\ UNCHANGED <<config, remembered>>

\* a call of scan_git_history
ScanGitHistory ==
    /\ Idle
    /\ \E repo \in Repos, max_commits \in { <<>>, <<1>> } :
        /\ call' = [op |-> "scan_git_history", repo |-> repo,
                    max_commits |-> max_commits]
        /\ LET outcome == scan_git_history(repo, config.rules, config.exclusions,
                                           max_commits)
           IN  /\ result' = Result(outcome)
               /\ scanned' = outcome.blocks
               /\ printed' = outcome.printed
    /\ UNCHANGED <<config, remembered>>

\* a call of Scanner.scan
Scan ==
    /\ Idle
    /\ \E target \in ScanTargets, git_history \in BOOLEAN,
          max_commits \in { <<>>, <<1>> } :
        LET scan == Scanner_scan(target, git_history, max_commits, config.rules,
                                 config.exclusions)
        IN  /\ call' = [op |-> "scan", target |-> target, git_history |-> git_history,
                        max_commits |-> max_commits, walker |-> scan.walker]
            /\ result' = Result(scan.outcome)
            /\ scanned' = scan.outcome.blocks
            /\ printed' = scan.outcome.printed
    /\ UNCHANGED <<config, remembered>>

\* the caller has taken the result; the engine keeps nothing of the call
Collect ==
    /\ ~Idle
    /\ call' = NoCall
    /\ result' = Result(Returned(<<>>))
    /\ scanned' = <<>>
    /\ printed' = <<>>
    /\ UNCHANGED <<config, remembered>>

NextContent == ScanContent \/ ScanFile \/ Collect

SpecContent == InitContent /\ [][NextContent]_vars

NextWalk == ScanDirectory \/ ScanGitHistory \/ Collect

SpecWalk == InitWalk /\ [][NextWalk]_vars

NextScan == Scan \/ Collect

NextTwice == ScanContentKeeping \/ Collect

NextBinary == IsBinaryFile \/ ScanFile \/ Collect

NextCommand == ScanCommand \/ Collect

SpecCommand == InitWalk /\ [][NextCommand]_vars

NextFinding == ToDict \/ Collect

SpecFinding == InitEntropy /\ [][NextFinding]_vars

NextEntropy == ShannonEntropy \/ IsBase64 \/ IsHex \/ Collect

SpecEntropy == InitEntropy /\ [][NextEntropy]_vars

SpecBinary == InitWalk /\ [][NextBinary]_vars

SpecTwice == InitWalk /\ [][NextTwice]_vars

SpecScan == InitWalk /\ [][NextScan]_vars

Init == InitContent

Next ==
    \/ ScanContent
    \/ ScanContentKeeping
    \/ IsBinaryFile
    \/ ShannonEntropy
    \/ IsBase64
    \/ IsHex
    \/ ToDict
    \/ ScanFile
    \/ ScanDirectory
    \/ ScanGitHistory
    \/ Scan
    \/ ScanCommand
    \/ Collect

Spec == Init /\ [][Next]_vars

(***************************************************************************)
(* Helpers of the properties.                                              *)
(***************************************************************************)
Range(seq) == {seq[i] : i \in 1..Len(seq)}

InScanContent == call.op = "scan_content"

\* the Findings of result that carry the id of rule
FindingsOf(rule) == {f \in Range(result.findings) : f.rule_id = rule.id}

\* kw occurs in content when letter case is ignored
OccursIgnoringCase(kw, content) ==
    \E i \in 0..(Len(content) - Len(kw)) :
        \A j \in 1..Len(kw) : LowerChar(content[i + j]) = LowerChar(kw[j])

SomeKeywordOccurs(rule, content) ==
    \E k \in 1..Len(rule.keywords) : OccursIgnoringCase(rule.keywords[k], content)

\* text as a whole matches the regex, letter case ignored
FullMatch(regex, text) ==
    /\ Len(text) = Len(regex.classes)
    /\ \A j \in 1..Len(text) :
          \E x \in regex.classes[j] : LowerChar(x) = LowerChar(text[j])

(***************************************************************************)
(* C4: entropy gating.  For every rule with a threshold T, no Finding of   *)
(* the rule has entropy below T; every match of an applied rule whose      *)
(* entropy is T or more is reported (only a match strictly below T is      *)
(* discarded); and the secret of every Finding matches the pattern of its  *)
(* rule.                                                                   *)
(***************************************************************************)
C4_EntropyGating ==
    InScanContent =>
        /\ \A r \in Range(config.rules) : \A f \in FindingsOf(r) :
              /\ r.entropy # <<>> => ~EntropyLess(f.entropy, r.entropy[1])
              /\ f.entropy = shannon_entropy(f.secret)
              /\ Compile(r.regex) = "ok" /\ FullMatch(r.regex, f.secret)
        /\ \A r \in Range(config.rules) :
              ( /\ result.raised = "none"
                /\ Compile(r.regex) = "ok"
                /\ r.keywords = <<>> \/ SomeKeywordOccurs(r, call.content)
                /\ ContentExcluded(call.file_path, config.exclusions) = "False" )
              => \A m \in Range(FindIter(r.regex, call.content, 0)) :
                    ( r.entropy = <<>>
                      \/ ~EntropyLess(shannon_entropy(m.group), r.entropy[1]) )
                    => \E f \in FindingsOf(r) :
                          /\ f.secret = m.group
                          /\ f.line_number = LineNumber(call.content, m.start)

\* a threshold of 1 bit: "aa" (0 bits) is discarded, "aB" (exactly 1 bit) is kept
C4_Witness ==
    /\ InScanContent
    /\ \E r \in Range(config.rules) :
          /\ r.entropy = <<1>>
          /\ \E m \in Range(FindIter(r.regex, call.content, 0)) :
                EntropyLess(shannon_entropy(m.group), 1)
          /\ \E f \in FindingsOf(r) :
                ~EntropyLess(f.entropy, 1) /\ EntropyLessEq(f.entropy, 1)

(***************************************************************************)
(* C5: exclusion precedence.  When the path matches at least one exclusion *)
(* pattern, scan_content and scan_file return an empty list, whatever the  *)
(* rules and the content are.                                              *)
(***************************************************************************)
\* the regex, searched unanchored and case-sensitively, matches the path
PathMatches(regex, path) ==
    /\ regex.compile = "ok"
    /\ \E i \in 0..(Len(path) - Len(regex.classes)) :
          \A j \in 1..Len(regex.classes) : path[i + j] \in regex.classes[j]

PathIsExcluded(path) ==
    \E k \in 1..Len(config.exclusions) : PathMatches(config.exclusions[k], path)

C5_ExclusionPrecedence ==
    /\ (InScanContent /\ PathIsExcluded(call.file_path))
          => result = Result(Returned(<<>>))
    /\ (call.op = "scan_file" /\ PathIsExcluded(call.file.path))
          => result = Result(Returned(<<>>))

(***************************************************************************)
(* C6: the keyword gate.  A rule with keywords of which one occurs in the  *)
(* content (letter case ignored) yields the Findings of the same rule      *)
(* without keywords; a rule none of whose keywords occurs yields none.     *)
(* So the result is that of the rule set in which the first kind of rule   *)
(* has lost its keywords and the second kind is left out.                  *)
(***************************************************************************)
WithoutKeywords(rules, content) ==
    LET applied == SelectSeq(rules,
                       LAMBDA r : r.keywords = <<>> \/ SomeKeywordOccurs(r, content))
    IN  [i \in 1..Len(applied) |-> [applied[i] EXCEPT !.keywords = <<>>]]

C6_KeywordGate ==
    InScanContent =>
        result = Result(scan_content(call.content,
                                     WithoutKeywords(config.rules, call.content),
                                     call.file_path, call.commit_hash,
                                     config.exclusions))

\* one rule's keyword occurs only in another letter case and the rule fires;
\* another rule's pattern matches but none of its keywords occurs
C6_Witness ==
    /\ InScanContent
    /\ \E r \in Range(config.rules) :
          /\ r.keywords # <<>>
          /\ SomeKeywordOccurs(r, call.content)
          /\ \A k \in 1..Len(r.keywords) : ~Contains(call.content, r.keywords[k])
          /\ FindingsOf(r) # {}
    /\ \E r \in Range(config.rules) :
          /\ r.keywords # <<>>
          /\ ~SomeKeywordOccurs(r, call.content)
          /\ FindIter(r.regex, call.content, 0) # <<>>
          /\ FindingsOf(r) = {}

(***************************************************************************)
(* C7: a rule whose pattern does not compile never aborts scan_content.    *)
(* The call raises nothing on account of the rules, and its result is the  *)
(* result for the rule set without the rules that do not compile.          *)
(***************************************************************************)
CompilingRules(rules) == SelectSeq(rules, LAMBDA r : Compile(r.regex) = "ok")

C7_BadRuleSkipped ==
    InScanContent =>
        /\ result = Result(scan_content(call.content, CompilingRules(config.rules),
                                        call.file_path, call.commit_hash,
                                        config.exclusions))
        /\ ContentExcluded(call.file_path, config.exclusions) \in {"True", "False"}
              => result.raised = "none"

(***************************************************************************)
(* Helpers of the properties of scan_git_history.                          *)
(***************************************************************************)
InHistory == call.op = "scan_git_history"

\* one rule that fires on every match, no exclusions, every commit scanned
PlainConfig == config.rules = <<RulePlain>> /\ config.exclusions = <<>>

\* a repository with nothing the matter, scanned whole with PlainConfig
Healthy ==
    /\ InHistory
    /\ call.repo.status = "repo"
    /\ call.repo.fault = NoFault
    /\ call.repo.renamed = NoRename
    /\ call.max_commits = <<>>
    /\ PlainConfig

\* the line holds a match of the pattern of RulePlain
HasSecret(line) == \E pos \in 0..Len(line) : MatchesAt(PatAB, line, pos, TRUE)

\* the indices of the Findings reported under the commit
FindingsUnder(hexsha) ==
    {n \in 1..Len(result.findings) : result.findings[n].commit_hash = hexsha}

\* small is large with some lines left out
RECURSIVE IsSubsequence(_, _)
IsSubsequence(small, large) ==
    IF small = <<>> THEN TRUE
    ELSE IF large = <<>> THEN FALSE
    ELSE IF Head(small) = Head(large) THEN IsSubsequence(Tail(small), Tail(large))
    ELSE IsSubsequence(small, Tail(large))

SecretLines(version) == SelectSeq(version, HasSecret)

(***************************************************************************)
(* C1: a secret-bearing line introduced by a non-root commit (in the       *)
(* commit's version of the file, not in its first parent's) is reported    *)
(* exactly once, under that commit.  Stated for a commit whose version     *)
(* holds one secret-bearing line: exactly one Finding carries the commit's *)
(* identifier when that line is not in the parent's version.               *)
(***************************************************************************)
C1_IntroducedSecretReported ==
    Healthy =>
        \A i \in 1..(Len(call.repo.commits) - 1) :
            LET mine   == call.repo.commits[i]
                parent == call.repo.commits[i + 1]
            IN  ( /\ Len(SecretLines(mine)) = 1
                  /\ SecretLines(mine)[1] \notin Range(parent) )
                => Cardinality(FindingsUnder(HexSha(call.repo, i))) = 1

(***************************************************************************)
(* C2: no secret is reported under a commit that did not introduce the     *)
(* line holding it.  A Finding under a commit has its secret in a line of  *)
(* that commit's version of the file (a commit that only removes the line  *)
(* reports nothing for it), and a non-root commit that only adds or only   *)
(* removes lines without a secret reports nothing.                         *)
(***************************************************************************)
C2_OnlyIntroducedReported ==
    Healthy =>
        \A i \in 1..Len(call.repo.commits) :
            LET mine == call.repo.commits[i]
            IN  /\ \A n \in FindingsUnder(HexSha(call.repo, i)) :
                      \E k \in 1..Len(mine) :
                          Contains(mine[k], result.findings[n].secret)
                /\ ( /\ i < Len(call.repo.commits)
                      /\ SecretLines(mine) = SecretLines(call.repo.commits[i + 1])
                      /\ \/ IsSubsequence(mine, call.repo.commits[i + 1])
                         \/ IsSubsequence(call.repo.commits[i + 1], mine) )
                    => FindingsUnder(HexSha(call.repo, i)) = {}

(***************************************************************************)
(* C3: the content block passed to scan_content for a changed file is      *)
(* made of exactly the added lines of the file's diff, all of them, in     *)
(* diff order and without their "+" marker, whatever their text is.        *)
(***************************************************************************)
\* the text of the "+" lines of the line diff that turns a into b
PlusLines(a, b) ==
    LET added == SelectSeq(EditScript(a, b), LAMBDA entry : Head(entry) = "+")
    IN  [k \in 1..Len(added) |-> Tail(added[k])]

C3_BlockIsAddedLines ==
    Healthy =>
        \A i \in 1..Len(call.repo.commits) :
            LET sides == DiffSides(call.repo, i)
                plus  == PlusLines(sides.a, sides.b)
            IN  plus # <<>> =>
                    \E n \in 1..Len(scanned) :
                        /\ scanned[n].commit_hash = HexSha(call.repo, i)
                        /\ scanned[n].content = Join(plus, NL)

(***************************************************************************)
(* C8: for a valid directory or repository, scan_directory and             *)
(* scan_git_history return a list and do not raise, whatever the rules,    *)
(* the exclusion patterns and the contents are.                            *)
(***************************************************************************)
C8_ValidTargetNeverRaises ==
    ( \/ call.op = "scan_directory"
      \/ InHistory /\ call.repo.status = "repo" )
    => result.raised = "none"

(***************************************************************************)
(* C9: an error while one commit is processed (its diff cannot be          *)
(* computed, has no usable shape) is confined to that commit: the scan     *)
(* does not raise and returns the findings of all the other commits.       *)
(***************************************************************************)
RECURSIVE Flatten(_)
Flatten(lists) ==
    IF lists = <<>> THEN <<>> ELSE Head(lists) \o Flatten(Tail(lists))

\* the findings of the scanned commits other than the one at skip
FindingsOfOthers(repo, skip, count) ==
    Flatten([j \in 1..count |->
                IF j = skip THEN <<>>
                ELSE CommitFindings(repo, j, config.rules, config.exclusions).findings])

C9_CommitErrorConfined ==
    ( /\ InHistory
      /\ call.repo.status = "repo"
      /\ PlainConfig
      /\ call.repo.fault.at \in 1..CommitCount(call.repo, call.max_commits) )
    => /\ result.raised = "none"
       /\ result.findings =
              FindingsOfOthers(call.repo, call.repo.fault.at,
                               CommitCount(call.repo, call.max_commits))

(***************************************************************************)
(* C10: scan_git_history fails with ValueError ("Not a valid Git           *)
(* repository") for every path that is no repository, a path that does    *)
(* not exist included, and yields no findings then.                        *)
(***************************************************************************)
C10_NotARepository ==
    (InHistory /\ call.repo.status # "repo")
    => result = [raised |-> "ValueError", findings |-> <<>>]

(***************************************************************************)
(* C11: scan_git_history processes the commits most recent first and at    *)
(* most max_commits of them (all of them when max_commits is absent).      *)
(* For a repository with commits whose diffs can all be computed and       *)
(* exclusion patterns that compile: the findings returned are those of     *)
(* the first max_commits commits, one commit after the other in that       *)
(* order, the content blocks are scanned in that order, and no Finding     *)
(* carries the identifier of a later commit of the list.                   *)
(***************************************************************************)
\* the position of the commit in the list, most recent first
CommitIndex(repo, hexsha) ==
    CHOOSE j \in 0..Len(repo.commits) :
        \/ j > 0 /\ HexSha(repo, j) = hexsha
        \/ j = 0 /\ \A k \in 1..Len(repo.commits) : HexSha(repo, k) # hexsha

\* all exclusion patterns of the configuration compile
ExclusionsCompile ==
    \A k \in 1..Len(config.exclusions) : Compile(config.exclusions[k]) = "ok"

\* how many commits are to be processed
Limit(repo, max_commits) ==
    IF max_commits = <<>> THEN Len(repo.commits)
    ELSE IF max_commits[1] <= Len(repo.commits) THEN max_commits[1]
    ELSE Len(repo.commits)

C11_CommitOrderAndLimit ==
    ( /\ InHistory
      /\ call.repo.status = "repo"
      /\ call.repo.commits # <<>>
      /\ call.repo.fault.kind # "diff_fails"
      /\ ExclusionsCompile )
    => LET repo  == call.repo
           limit == Limit(repo, call.max_commits)
       IN  /\ result.raised = "none"
           /\ result.findings =
                  Flatten([j \in 1..limit |->
                      CommitFindings(repo, j, config.rules, config.exclusions).findings])
           /\ \A n \in 1..Len(result.findings) :
                  CommitIndex(repo, result.findings[n].commit_hash) \in 1..limit
           /\ \A m, n \in 1..Len(result.findings) :
                  m < n => CommitIndex(repo, result.findings[m].commit_hash)
                           <= CommitIndex(repo, result.findings[n].commit_hash)
           /\ \A m, n \in 1..Len(scanned) :
                  m < n => CommitIndex(repo, scanned[m].commit_hash)
                           < CommitIndex(repo, scanned[n].commit_hash)

\* max_commits = 1 cuts off an older commit that has a finding of its own
C11_Witness ==
    /\ InHistory
    /\ call.repo.status = "repo"
    /\ Len(call.repo.commits) = 2
    /\ call.repo.fault = NoFault
    /\ ExclusionsCompile
    /\ CommitFindings(call.repo, 2, config.rules, config.exclusions).findings # <<>>
    /\ call.max_commits = <<1>>
    /\ Len(result.findings) = 1
    /\ result.findings[1].commit_hash = HexSha(call.repo, 1)

(***************************************************************************)
(* C12: Scanner.scan fails with FileNotFoundError whenever nothing is at   *)
(* target_path, in Files mode and in History mode alike, before a walker   *)
(* is invoked and without findings.                                        *)
(***************************************************************************)
InScan == call.op = "scan"

C12_TargetNotFound ==
    (InScan /\ call.target.kind = "missing")
    => /\ result = [raised |-> "FileNotFoundError", findings |-> <<>>]
       /\ call.walker = "none"
       /\ scanned = <<>>

\* a target that does not exist, scanned in History mode
C12_Witness ==
    /\ InScan
    /\ call.target.kind = "missing"
    /\ call.git_history
    /\ result.raised = "FileNotFoundError"

(***************************************************************************)
(* C13: dispatch of Scanner.scan on a target that exists.  History mode    *)
(* invokes scan_git_history; otherwise a regular file invokes scan_file    *)
(* and a directory scan_directory; any other kind of target (a symbolic    *)
(* link cycle, a special device file) fails with ValueError.               *)
(***************************************************************************)
C13_Dispatch ==
    (InScan /\ call.target.kind # "missing")
    => /\ call.git_history => call.walker = "scan_git_history"
       /\ (~call.git_history /\ call.target.kind = "file")
              => call.walker = "scan_file"
       /\ (~call.git_history /\ call.target.kind = "directory")
              => call.walker = "scan_directory"
       /\ (~call.git_history /\ call.target.kind \in {"device", "symlink_cycle"})
              => /\ call.walker = "none"
                 /\ result = [raised |-> "ValueError", findings |-> <<>>]

(***************************************************************************)
(* C14: the list scan_content returns for a rule set is the concatenation, *)
(* in rule order, of the lists returned for each rule scanned alone, and   *)
(* no rule's findings are suppressed or altered by another rule: what a    *)
(* rule yields alone is part of the result of the whole rule set.          *)
(***************************************************************************)
\* the result of the call repeated with the k-th rule alone
Alone(k) ==
    Result(scan_content(call.content, <<config.rules[k]>>, call.file_path,
                        call.commit_hash, config.exclusions))

C14_RulesIndependent ==
    InScanContent =>
        /\ result.raised = "none" =>
               result.findings =
                   Flatten([k \in 1..Len(config.rules) |-> Alone(k).findings])
        /\ \A k \in 1..Len(config.rules) :
               Alone(k).raised = "none" =>
                   IsSubsequence(Alone(k).findings, result.findings)

(***************************************************************************)
(* C15: every Finding of scan_content has line_number = (the number of     *)
(* newline characters before the start of its match) + 1, hence between 1  *)
(* and (the number of newlines of the content) + 1.  Every Finding is at   *)
(* the line of a match of its rule with that text, and every match of a    *)
(* rule that fires on every match has a Finding at its line.               *)
(***************************************************************************)
\* the newline characters of the content before the 0-based offset start
NewlinesBefore(content, start) ==
    Cardinality({i \in 1..start : content[i] = NL})

C15_LineNumber ==
    InScanContent =>
        /\ \A n \in 1..Len(result.findings) :
              LET f == result.findings[n]
              IN  /\ f.line_number >= 1
                  /\ f.line_number <= NewlinesBefore(call.content, Len(call.content)) + 1
                  /\ \E r \in Range(config.rules) :
                        /\ r.id = f.rule_id
                        /\ Compile(r.regex) = "ok"
                        /\ \E m \in Range(FindIter(r.regex, call.content, 0)) :
                              /\ m.group = f.secret
                              /\ f.line_number =
                                     NewlinesBefore(call.content, m.start) + 1
        /\ \A r \in Range(config.rules) :
              ( /\ result.raised = "none"
                /\ Compile(r.regex) = "ok"
                /\ r.keywords = <<>> /\ r.entropy = <<>>
                /\ ~PathIsExcluded(call.file_path) )
              => \A m \in Range(FindIter(r.regex, call.content, 0)) :
                    \E f \in FindingsOf(r) :
                        /\ f.secret = m.group
                        /\ f.line_number = NewlinesBefore(call.content, m.start) + 1

\* a Finding on the first line and another on the second
C15_Witness ==
    /\ InScanContent
    /\ \E m, n \in 1..Len(result.findings) :
          /\ result.findings[m].line_number = 1
          /\ result.findings[n].line_number = 2
          /\ result.findings[m].rule_id = result.findings[n].rule_id

(***************************************************************************)
(* C16: a rule with neither an entropy threshold nor keywords yields       *)
(* exactly one Finding per non-overlapping match of its pattern, matched   *)
(* without regard to letter case, with the matched text as secret.         *)
(* Stated for a scan that is carried out (the path is not excluded, the    *)
(* exclusion patterns compile and no rule pattern raises anything but      *)
(* re.error): the secrets of the rule's Findings are, in order, the texts  *)
(* of the matches.                                                         *)
(***************************************************************************)
\* no rule pattern makes re.compile raise anything but re.error
RulesCompileOrError ==
    \A k \in 1..Len(config.rules) :
        Compile(config.rules[k].regex) \in {"ok", "re.error"}

\* the non-overlapping occurrences of the pattern from the 0-based offset
\* pos on, leftmost first, letter case ignored
RECURSIVE Occurrences(_, _, _)
Occurrences(regex, text, pos) ==
    IF pos + Len(regex.classes) > Len(text) THEN <<>>
    ELSE IF FullMatch(regex, SubSeq(text, pos + 1, pos + Len(regex.classes)))
         THEN <<SubSeq(text, pos + 1, pos + Len(regex.classes))>>
              \o Occurrences(regex, text, pos + Len(regex.classes))
    ELSE Occurrences(regex, text, pos + 1)

\* the secrets of the Findings of the k-th rule, in the order of the result
SecretsOf(k) ==
    LET fs == SelectSeq(result.findings,
                        LAMBDA f : f.rule_id = config.rules[k].id)
    IN  [i \in 1..Len(fs) |-> fs[i].secret]

C16_PlainRuleFiresOnEveryMatch ==
    ( /\ InScanContent
      /\ ExclusionsCompile
      /\ RulesCompileOrError
      /\ ~PathIsExcluded(call.file_path) )
    => \A k \in 1..Len(config.rules) :
          LET r == config.rules[k]
          IN  ( /\ Compile(r.regex) = "ok"
                /\ r.keywords = <<>> /\ r.entropy = <<>>
                /\ \A j \in 1..Len(config.rules) : j # k => config.rules[j].id # r.id )
              => SecretsOf(k) = Occurrences(r.regex, call.content, 0)

\* two matches of a plain rule, one of them in another letter case than the
\* pattern, and two Findings
C16_Witness ==
    /\ InScanContent
    /\ ExclusionsCompile /\ RulesCompileOrError
    /\ ~PathIsExcluded(call.file_path)
    /\ \E k \in 1..Len(config.rules) :
          /\ config.rules[k] = RulePlain
          /\ Len(SecretsOf(k)) = 2
          /\ <<"a", "B">> \in Range(SecretsOf(k))

(***************************************************************************)
(* C17: idempotence and statelessness.  A scan_content call with the       *)
(* content, path, commit id, rules and exclusions of an earlier call       *)
(* returns the same Finding list (same order, same fields) or raises the   *)
(* same exception, whatever calls were made in between; and no step        *)
(* changes the rule set or the exclusion list.                             *)
(***************************************************************************)
SameAsRemembered ==
    /\ InScanContent
    /\ remembered # NoCall
    /\ remembered.call = call

C18_CommitHashAndPath ==
    /\ call.op = "scan_directory" =>
           \A n \in 1..Len(result.findings) : result.findings[n].commit_hash = NULL
    /\ (InHistory /\ call.repo.status = "repo") =>
           \A n \in 1..Len(result.findings) :
               LET f == result.findings[n]
                   i == CommitIndex(call.repo, f.commit_hash)
               IN  /\ f.commit_hash # NULL
                   /\ i \in 1..Len(call.repo.commits)
                   /\ f.file_path = PathIn(call.repo, i)

(***************************************************************************)
(* C19: a file whose read fails is skipped without raising.  scan_file     *)
(* returns an empty list for it, and scan_directory scans every other      *)
(* regular file and returns their findings: those of the directory         *)
(* without the files that cannot be read.  Stated for exclusion patterns   *)
(* that compile and rule patterns that raise nothing but re.error.         *)
(***************************************************************************)
InDirectory == call.op = "scan_directory"

\* a regular file that cannot be opened for reading
Unreadable(file) == file.is_file /\ ~file.open_r

C19_UnreadableFileSkipped ==
    (InDirectory /\ ExclusionsCompile /\ RulesCompileOrError)
    => LET files    == FilesOf(call.directory)
           readable == SelectSeq(files, LAMBDA file : ~Unreadable(file))
       IN  /\ result.raised = "none"
           /\ \A k \in 1..Len(files) :
                  Unreadable(files[k]) =>
                      Result(scan_file(files[k], config.rules, config.exclusions))
                          = Result(Returned(<<>>))
           /\ result.findings =
                  Flatten([k \in 1..Len(readable) |->
                      scan_file(readable[k], config.rules, config.exclusions).findings])

\* a file that passes the binary check and then cannot be opened for
\* reading, followed by a file with a secret that is reported
C19_Witness ==
    /\ InDirectory
    /\ ExclusionsCompile /\ RulesCompileOrError
    /\ LET files == FilesOf(call.directory)
       IN  /\ Len(files) = 2
           /\ Unreadable(files[1]) /\ files[1].open_rb
           /\ ~PathIsExcluded(files[1].path)
           /\ ~Unreadable(files[2])
    /\ result.findings # <<>>

(***************************************************************************)
(* C20: whenever a file is skipped because it cannot be read, a            *)
(* diagnostic is emitted for that file.  Every regular file of a scanned   *)
(* directory that is not excluded and cannot be opened for reading has a   *)
(* warning among those printed.                                            *)
(***************************************************************************)
C20_UnreadableFileReported ==
    (InDirectory /\ ExclusionsCompile /\ RulesCompileOrError)
    => \A file \in Range(FilesOf(call.directory)) :
          (Unreadable(file) /\ ~PathIsExcluded(file.path))
          => \E n \in 1..Len(printed) :
                /\ printed[n].kind = "could_not_read"
                /\ printed[n].about = file.path

(***************************************************************************)
(* C21: scan_directory visits every regular file below the directory and   *)
(* its result is the concatenation, in traversal order, of the results of  *)
(* scan_file for those files (the exception of the first scan_file that    *)
(* raises, if one does).  Files that match an exclusion pattern and binary *)
(* files contribute no Finding.                                            *)
(***************************************************************************)
\* the entries of the scanned directory that are regular files, in order
RegularFiles == SelectSeq(FilesOf(call.directory), LAMBDA file : file.is_file)

\* the results of scan_file for the regular files
FileResults ==
    [k \in 1..Len(RegularFiles) |->
        Result(scan_file(RegularFiles[k], config.rules, config.exclusions))]

C21_DirectoryIsConcatenation ==
    InDirectory =>
        /\ (\A k \in 1..Len(FileResults) : FileResults[k].raised = "none")
              => result = [raised   |-> "none",
                           findings |-> Flatten([k \in 1..Len(FileResults) |->
                                                   FileResults[k].findings])]
        /\ \A k \in 1..Len(FileResults) :
              ( /\ FileResults[k].raised # "none"
                /\ \A j \in 1..(k - 1) : FileResults[j].raised = "none" )
              => result = [raised |-> FileResults[k].raised, findings |-> <<>>]
        /\ \A n \in 1..Len(result.findings) :
              \E file \in Range(RegularFiles) :
                  /\ file.path = result.findings[n].file_path
                  /\ ~PathIsExcluded(file.path)
                  /\ file.suffix # ".PNG"

\* Scenario C: a file below an excluded subdirectory and a file that is not
\* excluded, both with a secret; only the second is reported
C21_Witness ==
    /\ InDirectory
    /\ config.exclusions = <<ExLib>>
    /\ Len(RegularFiles) = 2
    /\ PathIsExcluded(RegularFiles[1].path)
    /\ ~PathIsExcluded(RegularFiles[2].path)
    /\ Count(RegularFiles[2].path, "/") = 1
    /\ Count(RegularFiles[1].path, "/") = 2
    /\ HasSecret(RegularFiles[1].content)
    /\ result.findings # <<>>
    /\ \A n \in 1..Len(result.findings) :
          result.findings[n].file_path = RegularFiles[2].path

(***************************************************************************)
(* C22: a file is treated as binary, and skipped, if and only if its       *)
(* extension (letter case ignored) is a binary extension or the first      *)
(* 8 KiB of its content hold a null byte; a readable text file whose only  *)
(* null byte lies after the first 8 KiB is scanned.                        *)
(***************************************************************************)
\* the extension is a binary extension in some letter case
BinaryExtension(file) == file.suffix \in {".png", ".PNG", ".zip", ".ZIP", ".pyc", ".PYC"}

\* a null byte among the bytes at offsets 0..8191
NullInFirst8KiB(file) == file.nul # <<>> /\ file.nul[1] \in 0..8191

AddedBlock(repo, i) ==
    Join(PlusLines(IF i = Len(repo.commits) THEN <<>> ELSE repo.commits[i + 1],
                   repo.commits[i]), NL)

C23_HistoryLineNumber ==
    ( /\ InHistory
      /\ call.repo.status = "repo"
      /\ call.repo.fault = NoFault
      /\ ExclusionsCompile )
    => \A n \in 1..Len(result.findings) :
          LET f == result.findings[n]
          IN  \E i \in 1..Len(call.repo.commits) :
                  /\ f.commit_hash = HexSha(call.repo, i)
                  /\ \E r \in Range(config.rules) :
                        /\ r.id = f.rule_id
                        /\ Compile(r.regex) = "ok"
                        /\ \E m \in Range(FindIter(r.regex, AddedBlock(call.repo, i), 0)) :
                              /\ m.group = f.secret
                              /\ f.line_number =
                                     NewlinesBefore(AddedBlock(call.repo, i), m.start) + 1

(***************************************************************************)
(* C24: shannon_entropy(t) is 0.0 if and only if t is empty or made of one *)
(* repeated character, and strictly positive for every t with two or more  *)
(* distinct characters.                                                    *)
(***************************************************************************)
\* the entropy (n, pp) is log2(n) - log2(pp)/n: zero when n^n = pp
IsZero(ent) == Pow(ent.len, ent.len) = ent.pp

IsPositive(ent) == Pow(ent.len, ent.len) > ent.pp

DistinctChars(text) == {text[i] : i \in 1..Len(text)}

C24_ZeroEntropy ==
    call.op = "shannon_entropy" =>
        /\ IsZero(result.value) <=> Cardinality(DistinctChars(call.data)) <= 1
        /\ Cardinality(DistinctChars(call.data)) >= 2 => IsPositive(result.value)

\* the two cases of one letter are two characters
C24_Witness ==
    /\ call.op = "shannon_entropy"
    /\ call.data = <<"a", "A">>
    /\ IsPositive(result.value)

(***************************************************************************)
(* C25: is_base64(t) is true if and only if t has 16 characters or more,   *)
(* a length that is a multiple of 4, and at least 95% of its characters in *)
(* the base64 alphabet; it is true for every such t made of alphabet       *)
(* characters only.                                                        *)
(***************************************************************************)
\* the positions of text with a character outside A-Z a-z 0-9 + / =
Foreign(text) ==
    {i \in 1..Len(text) :
        /\ text[i] \notin HexDigits
        /\ text[i] \notin {"g", "x", "+", "/", "="} }

C25_Base64Iff ==
    call.op = "is_base64" =>
        /\ result.value <=> ( /\ Len(call.text) >= 16
                              /\ Len(call.text) % 4 = 0
                              /\ 20 * Cardinality(Foreign(call.text)) <= Len(call.text) )
        /\ ( /\ Len(call.text) >= 16
             /\ Len(call.text) % 4 = 0
             /\ Foreign(call.text) = {} ) => result.value

\* 19 of 20 characters in the alphabet: exactly 95%
C25_Witness ==
    /\ call.op = "is_base64"
    /\ Len(call.text) = 20
    /\ Cardinality(Foreign(call.text)) = 1
    /\ result.value

DigitRun(d) ==
    /\ d # <<>>
    /\ \A k \in 1..Len(d) :
          \/ d[k] \in HexDigits
          \/ /\ d[k] = "_"
             /\ 1 < k /\ k < Len(d)
             /\ d[k - 1] \in HexDigits
             /\ d[k + 1] \in HexDigits

\* text is whitespace, an optional sign, an optional 0x or 0X with an
\* optional underscore, a run of digits, whitespace
IsBase16Literal(text) ==
    \E i, j \in 0..Len(text) :
        /\ i + j <= Len(text)
        /\ \A k \in 1..i : text[k] \in Whitespace
        /\ \A k \in (Len(text) - j + 1)..Len(text) : text[k] \in Whitespace
        /\ \E sign \in {0, 1}, prefix \in {0, 2, 3} :
              LET core == SubSeq(text, i + 1, Len(text) - j)
              IN  /\ Len(core) > sign + prefix
                  /\ sign = 1 => core[1] \in {"+", "-"}
                  /\ prefix >= 2 => core[sign + 1] = "0" /\ core[sign + 2] \in {"x", "X"}
                  /\ prefix = 3 => core[sign + 3] = "_"
                  /\ DigitRun(SubSeq(core, sign + prefix + 1, Len(core)))

Dots == <<".", ".", ".">>

\* the preview as the claim describes it
PreviewAsDescribed ==
    /\ Len(call.finding.secret) <= 20 =>
           result.value.secret_preview = call.finding.secret
    /\ Len(call.finding.secret) > 20 =>
           result.value.secret_preview = SubSeq(call.finding.secret, 1, 20) \o Dots
    /\ Len(result.value.secret_preview) <= 23

InCommand == call.op = "scan_command"

\* what Scanner.scan makes of target k of the command line
TargetScan(k) ==
    Scanner_scan(call.targets[k], call.git_history, <<>>, config.rules,
                 config.exclusions).outcome

\* the findings of the targets whose scan returns, in command line order
Collected ==
    Flatten([k \in 1..Len(call.targets) |->
                IF TargetScan(k).raised = "none" THEN TargetScan(k).findings ELSE <<>>])

\* the targets whose scan raises, in command line order
Failing ==
    SelectSeq([k \in 1..Len(call.targets) |-> k],
              LAMBDA k : TargetScan(k).raised # "none")

\* every target is scanned unless the run ends before the loop
TargetsHandled ==
    result.value.stage \in {"report", "done"} =>
        /\ result.value.findings = Collected
        /\ Len(result.value.errors) = Len(Failing)
        /\ \A n \in 1..Len(Failing) :
              /\ result.value.errors[n].target = call.targets[Failing[n]]
              /\ result.value.errors[n].error = TargetScan(Failing[n]).raised

\* something fails outside the loop: the command line is rejected, the
\* configuration does not load, the report cannot be written
FailsOutsideLoop ==
    \/ call.targets = <<>>
    \/ \E k \in 1..Len(call.targets) : call.targets[k].kind \in {"missing", "symlink_cycle"}
    \/ ~call.loads
    \/ ~call.reports

C29_CompiledOnce ==
    call.op \in {"scan_directory", "scan_git_history"} =>
        \A r \in Range(config.rules) : Compilations(scanned, r) <= 1

(***************************************************************************)
(* C30: exclusion patterns are searched, unanchored, in the whole path     *)
(* string as it is passed to the scan, the prefix of the scanned root      *)
(* included: when the string of the root R itself holds a match of an      *)
(* exclusion pattern, scan_directory(R) skips every file under R and       *)
(* returns an empty list, whatever the files' names and contents are.      *)
(***************************************************************************)
C30_ExcludedRoot ==
    ( /\ call.op = "scan_directory"
      /\ PathIsExcluded(call.directory.root) )
    => /\ result = Result(Returned(<<>>))
       /\ scanned = <<>>

====
